---- MODULE Spec2Model ----
(***************************************************************************)
(* Model of BinPy's analog SignalGenerator (BinPy/analog/sig_gen.py): the  *)
(* parameter store of the generator, i.e. the fields written by the        *)
(* constructor and by the set_* methods.                                   *)
(*                                                                         *)
(* Number representation.  The code works on Python floats; the model uses *)
(* exact fixed-point numbers:                                              *)
(*  - frequencies (Hz) are counted in tenths of a Hz, so that FREQ_MIN =   *)
(*    0.1 is exact.  As FREQ_MAX = 10^9 Hz does not fit a 32-bit integer   *)
(*    in tenths, a frequency is a two-limb number [h, l] standing for      *)
(*    h * 100000 + l tenths of a Hz, with 0 <= l < 100000;                 *)
(*  - voltages (amplitude, offset) are integers, in millivolts;            *)
(*  - attenuations (dB) are integers, in units of 10^-5 dB;                *)
(*  - math.log10 and 10 ** x are computed on the numbers of the form       *)
(*    2^i * 5^j with log10(2) = 0.30103 and log10(5) = 0.69897 (which add  *)
(*    up to exactly 1), so that both are exact and inverse of each other   *)
(*    on that lattice.                                                     *)
(***************************************************************************)
EXTENDS Integers, Sequences, FiniteSets, TLC

VARIABLES frequency, frequency_range, time_period, amplitude, attenuation,
          offset, type, mod_type, last,
          \* the thread: _exit, the position in run() and its local variables
          exit, pc, cur_time_offset, old_time_offset, m_t, voltage,
          \* the buses: voltages of mod_ip and of outputs, and the links
          mod_ip, outputs, links,
          \* time: the wall clock; the time elapsed since the time reading of
          \* the last iteration that published; the number of samples
          \* published
          clock, since, published,
          \* the call of a setter in progress: the line it is about to
          \* execute, its argument, and the fields as they were at the call
          frame

\* the state of the thread, with the clock and the two history variables
threadVars ==
    <<exit, pc, cur_time_offset, old_time_offset, m_t, voltage, clock, since,
      published>>

\* the state of the buses
busVars == <<mod_ip, outputs, links>>

vars == <<frequency, frequency_range, time_period, amplitude, attenuation,
          offset, type, mod_type, last, threadVars, busVars, frame>>

\* The configuration fields of the generator (everything but the call record).
config == <<frequency, frequency_range, time_period, amplitude, attenuation,
            offset, type, mod_type>>

----------------------------------------------------------------------------
(* Frequencies: two-limb fixed point, in tenths of a Hz.                   *)

Norm(h, l) == [h |-> h + (l \div 100000), l |-> l % 100000]

\* n Hz, n an integer
Hz(n) == [h |-> n \div 10000, l |-> (n % 10000) * 10]

\* n tenths of a Hz, 0 <= n < 100000
Tenths(n) == [h |-> 0, l |-> n]

Zero == Tenths(0)

Lt(a, b) == a.h < b.h \/ (a.h = b.h /\ a.l < b.l)
Le(a, b) == a = b \/ Lt(a, b)
Gt(a, b) == Lt(b, a)
Ge(a, b) == Le(b, a)

Add(a, b) == Norm(a.h + b.h, a.l + b.l)
Sub(a, b) == Norm(a.h - b.h, a.l - b.l)
\* product of a frequency by an integer p
Mul(a, p) == Norm(a.h * p, a.l * p)

----------------------------------------------------------------------------
(* Class constants.                                                        *)

Volts(n) == n * 1000

AMPL_MIN == Volts(0)
AMPL_MAX == Volts(10)
FREQ_MIN == Tenths(1)
FREQ_MAX == Hz(1000000000)

FREQ_RANGE ==
    [i \in 0..7 |->
        CASE i = 0 -> <<Tenths(1), Hz(10)>>
          [] i = 1 -> <<Hz(10), Hz(100)>>
          [] i = 2 -> <<Hz(100), Hz(1000)>>
          [] i = 3 -> <<Hz(1000), Hz(10000)>>
          [] i = 4 -> <<Hz(10000), Hz(100000)>>
          [] i = 5 -> <<Hz(100000), Hz(1000000)>>
          [] i = 6 -> <<Hz(1000000), Hz(10000000)>>
          [] i = 7 -> <<Hz(10000000), Hz(1000000000)>>]

\* The value of an attribute that no assignment has created yet.
Unset == <<>>

----------------------------------------------------------------------------
(* Arguments.  An argument is a Python value: its type and, for a number,  *)
(* its value.                                                              *)

IntArg(v) == [ty |-> "int", v |-> v]
FloatArg(v) == [ty |-> "float", v |-> v]
\* an argument that is not a number (a string); v only fills the field
StrArg(v) == [ty |-> "str", v |-> v]
ListArg(s) == [ty |-> "list", v |-> s]
TupleArg(s) == [ty |-> "tuple", v |-> s]

\* type(x) in [int, float]
IsNumber(x) == x.ty \in {"int", "float"}

\* float(x) of a number: the same number
Float(x) == x.v

----------------------------------------------------------------------------
(* math.log10 and 10 ** x, exact on the numbers 2^i * 5^j.                 *)

\* Largest |i|, |j| tried when 10 ** x is written back as 2^i * 5^j.
MaxExp == 3

RECURSIVE Log10Int(_)
\* log10(n) in units of 10^-5, for n = 2^i * 5^j, n >= 1
Log10Int(n) ==
    IF n <= 1 THEN 0
    ELSE IF n % 2 = 0 THEN 30103 + Log10Int(n \div 2)
    ELSE 69897 + Log10Int(n \div 5)

RECURSIVE Power(_, _)
Power(b, e) == IF e <= 0 THEN 1 ELSE b * Power(b, e - 1)

\* 10 ** x for x in units of 10^-5, as a fraction <<numerator, denominator>>
Pow10(x) ==
    LET ij == CHOOSE p \in (-MaxExp..MaxExp) \X (-MaxExp..MaxExp) :
                  p[1] * 30103 + p[2] * 69897 = x
    IN  << Power(2, ij[1]) * Power(5, ij[2]),
           Power(2, -ij[1]) * Power(5, -ij[2]) >>

\* math.log10 raises ValueError ("math domain error") on these arguments
Log10DomainError(ampl) == ampl.v <= 0

\* AttenuationOf with the division by 10 forgotten: 20 * math.log10(ampl)
AttenuationOf_NoDivision(ampl) ==
    20 * (Log10Int(Float(ampl)) - Log10Int(Volts(1)))

\* 20 * (math.log10(float(ampl) / 10)), ampl in millivolts, result in 10^-5 dB
AttenuationOf(ampl) == 20 * (Log10Int(Float(ampl)) - Log10Int(AMPL_MAX))

\* AMPL_MIN + (10 ** (-attenuation / 20)) * AMPL_MAX * percent_range * 0.01
AmplitudeOfPercent(att, percent) ==
    LET g == Pow10((-att) \div 20)
    IN  AMPL_MIN + (g[1] * AMPL_MAX * Float(percent)) \div (g[2] * 100)

----------------------------------------------------------------------------
(* Inputs of the calls.                                                    *)

dB(n) == n * 100000

TypeInputs == {0, 5, 6}
ModTypeInputs == {1, 3}
FrequencyInputs ==
    { IntArg(Zero), FloatArg(Tenths(1)), IntArg(Hz(500)), IntArg(Hz(1000)),
      IntArg(Hz(1000000001)), StrArg(Zero) }
FrequencyPercentInputs ==
    { IntArg(-1), IntArg(2), IntArg(100), IntArg(101), StrArg(0) }
AmplitudePercentInputs ==
    { IntArg(-1), IntArg(50), IntArg(100), IntArg(101), StrArg(0) }
RangeInputs ==
    { ListArg(<<Hz(10), Hz(100)>>), TupleArg(<<Hz(10), Hz(100)>>),
      ListArg(<<Zero, Hz(10)>>), TupleArg(<<Zero, Hz(10)>>),
      TupleArg(<<Hz(1000), Hz(2000000000)>>),
      ListArg(<<Hz(2000000000), Hz(2100000000)>>),
      ListArg(<<Zero, Zero>>),
      ListArg(<<Hz(100), Hz(10)>>),
      ListArg(<<Hz(10), Hz(100), Hz(1000)>>),
      StrArg(<<>>) }
AmplitudeInputs ==
    { IntArg(Volts(-1)), IntArg(Volts(0)), IntArg(Volts(5)),
      IntArg(Volts(10)), IntArg(Volts(20)), StrArg(0) }
AttenuationInputs ==
    { IntArg(dB(-20)), IntArg(dB(0)), IntArg(dB(20)), StrArg(0) }
OffsetInputs ==
    { IntArg(Volts(-11)), FloatArg(-2500), IntArg(Volts(10)),
      IntArg(Volts(11)), StrArg(0) }

\* The record of the last call: the method, its argument, and whether it
\* raised an exception.
Call(op, arg, raised) == [op |-> op, arg |-> arg, raised |-> raised]

----------------------------------------------------------------------------
(* The setters.                                                            *)

\* TimePeriodOf with the test "frequency != 0" forgotten
TimePeriodOf_NoZeroTest(f) == [inf |-> FALSE, of |-> f]

\* time period of a frequency f: 1 / f, or float("inf") when f is 0
TimePeriodOf(f) ==
    IF f # Zero THEN [inf |-> FALSE, of |-> f] ELSE [inf |-> TRUE, of |-> Zero]

\* the condition of the band selection loop for band i
BandSelected(i, f) ==
    Le(f, FREQ_RANGE[i][1]) /\ Ge(f, FREQ_RANGE[i][1])

\* _frequency_range after the band selection loop, cur being its value (or
\* Unset) before
SelectRange(f, cur) ==
    IF \E i \in 0..7 : BandSelected(i, f)
    THEN LET i == CHOOSE k \in 0..7 :
                     /\ BandSelected(k, f)
                     /\ \A m \in 0..(k - 1) : ~BandSelected(m, f)
         IN  FREQ_RANGE[i]
    ELSE cur

\* _frequency after the three assignments of set_frequency_exact, cur being
\* its value before
StoredFrequency(f, cur) ==
    LET f1 == IF Lt(Float(f), FREQ_MIN) THEN FREQ_MIN ELSE cur
        f2 == IF Gt(Float(f), FREQ_MAX) THEN FREQ_MAX ELSE f1
    IN  Float(f)

\* _amplitude and _attenuation after the two saturation branches of
\* set_amplitude_exact
Saturated(ampl, curAmpl, curAtt) ==
    LET s1 == IF Float(ampl) <= AMPL_MIN
              THEN [amplitude |-> 0, attenuation |-> 0]
              ELSE [amplitude |-> curAmpl, attenuation |-> curAtt]
    IN  IF Float(ampl) >= AMPL_MAX
        THEN [amplitude |-> Volts(10), attenuation |-> 0]
        ELSE s1

\* _amplitude and _attenuation after set_amplitude_exact(ampl) on a number,
\* and whether the call raised
AmplitudeExact(ampl, curAmpl, curAtt) ==
    LET s == Saturated(ampl, curAmpl, curAtt)
    IN  IF Log10DomainError(ampl)
        THEN [raised |-> TRUE, amplitude |-> s.amplitude,
              attenuation |-> s.attenuation]
        ELSE [raised |-> FALSE, amplitude |-> Float(ampl),
              attenuation |-> AttenuationOf(ampl)]

set_amplitude_exact(ampl) ==
    /\ IF ~IsNumber(ampl)
       THEN /\ last' = Call("set_amplitude_exact", ampl, TRUE)
            /\ UNCHANGED <<amplitude, attenuation>>
       ELSE LET r == AmplitudeExact(ampl, amplitude, attenuation)
            IN  /\ amplitude' = r.amplitude
                /\ attenuation' = r.attenuation
                /\ last' = Call("set_amplitude_exact", ampl, r.raised)
    /\ UNCHANGED <<frequency, frequency_range, time_period, offset, type,
                   mod_type>>

\* AttenuationAccepted with "attenuation <= 0" for "attenuation < 0"
AttenuationAccepted_ZeroRejected(att) == IsNumber(att) /\ ~(att.v <= 0)

\* the argument check of set_attenuation
AttenuationAccepted(att) == IsNumber(att) /\ ~(att.v < 0)

set_attenuation(att) ==
    /\ IF AttenuationAccepted(att)
       THEN /\ attenuation' = att.v
            /\ last' = Call("set_attenuation", att, FALSE)
       ELSE /\ last' = Call("set_attenuation", att, TRUE)
            /\ UNCHANGED attenuation
    /\ UNCHANGED <<frequency, frequency_range, time_period, amplitude, offset,
                   type, mod_type>>

\* the argument check of set_amplitude and of set_frequency
PercentAccepted(p) == IsNumber(p) /\ ~(p.v < 0 \/ p.v > 100)

set_amplitude(percent_range) ==
    /\ IF PercentAccepted(percent_range)
       THEN /\ amplitude' = AmplitudeOfPercent(attenuation, percent_range)
            /\ last' = Call("set_amplitude", percent_range, FALSE)
       ELSE /\ last' = Call("set_amplitude", percent_range, TRUE)
            /\ UNCHANGED amplitude
    /\ UNCHANGED <<frequency, frequency_range, time_period, attenuation,
                   offset, type, mod_type>>

\* RangeRejected with the test of the length forgotten
RangeRejected_NoLengthTest(r) ==
    \/ r.ty \notin {"list", "tuple"}
    \/ Gt(r.v[1], r.v[2])

\* set_frequency_range raises before it reaches the saturation of the edges
RangeRejected(r) ==
    \/ r.ty \notin {"list", "tuple"}
    \/ Len(r.v) # 2
    \/ Gt(r.v[1], r.v[2])

\* an item assignment of set_frequency_range is made on a tuple: TypeError
RangeItemAssignmentFails(r) ==
    /\ r.ty = "tuple"
    /\ (Lt(r.v[1], FREQ_MIN) \/ Gt(r.v[2], FREQ_MAX))

\* the two edges after the saturation
SaturatedRange(r) ==
    << IF Lt(r.v[1], FREQ_MIN) THEN FREQ_MIN ELSE r.v[1],
       IF Gt(r.v[2], FREQ_MAX) THEN FREQ_MAX ELSE r.v[2] >>

set_frequency_range(range_tuple) ==
    /\ IF RangeRejected(range_tuple)
       THEN /\ last' = Call("set_frequency_range", range_tuple, TRUE)
            /\ UNCHANGED frequency_range
       ELSE IF RangeItemAssignmentFails(range_tuple)
       THEN /\ last' = Call("set_frequency_range", range_tuple, TRUE)
            /\ UNCHANGED frequency_range
       ELSE /\ frequency_range' = SaturatedRange(range_tuple)
            /\ last' = Call("set_frequency_range", range_tuple, FALSE)
    /\ UNCHANGED <<frequency, time_period, amplitude, attenuation, offset,
                   type, mod_type>>

\* low + (high - low) * percent_range
FrequencyOfPercent(range, percent) ==
    Add(range[1], Mul(Sub(range[2], range[1]), Float(percent)))

set_frequency(percent_range) ==
    /\ IF PercentAccepted(percent_range) /\ frequency_range # Unset
       THEN /\ frequency' = FrequencyOfPercent(frequency_range, percent_range)
            /\ time_period' = TimePeriodOf(frequency')
            /\ last' = Call("set_frequency", percent_range, FALSE)
       ELSE \* rejected argument, or AttributeError on the missing range
            /\ last' = Call("set_frequency", percent_range, TRUE)
            /\ UNCHANGED <<frequency, time_period>>
    /\ UNCHANGED <<frequency_range, amplitude, attenuation, offset, type,
                   mod_type>>

set_frequency_exact(f) ==
    /\ IF ~IsNumber(f)
       THEN /\ last' = Call("set_frequency_exact", f, TRUE)
            /\ UNCHANGED <<frequency, frequency_range, time_period>>
       ELSE /\ frequency' = StoredFrequency(f, frequency)
            /\ frequency_range' = SelectRange(Float(f), frequency_range)
            /\ time_period' = TimePeriodOf(frequency')
            /\ last' = Call("set_frequency_exact", f, FALSE)
    /\ UNCHANGED <<amplitude, attenuation, offset, type, mod_type>>

set_type(typ) ==
    /\ IF typ \in 0..5
       THEN /\ type' = typ
            /\ last' = Call("set_type", IntArg(typ), FALSE)
       ELSE /\ last' = Call("set_type", IntArg(typ), TRUE)
            /\ UNCHANGED type
    /\ UNCHANGED <<frequency, frequency_range, time_period, amplitude,
                   attenuation, offset, mod_type>>

\* OffsetAccepted with the test of the lower limit forgotten
OffsetAccepted_NoLowerLimit(o) == IsNumber(o) /\ ~(o.v > AMPL_MAX)

\* the argument checks of set_offset
OffsetAccepted(o) ==
    IsNumber(o) /\ ~((o.v > AMPL_MAX) \/ (o.v < -AMPL_MAX))

set_offset(o) ==
    /\ IF OffsetAccepted(o)
       THEN /\ offset' = Float(o)
            /\ last' = Call("set_offset", o, FALSE)
       ELSE /\ last' = Call("set_offset", o, TRUE)
            /\ UNCHANGED offset
    /\ UNCHANGED <<frequency, frequency_range, time_period, amplitude,
                   attenuation, type, mod_type>>

set_modulation_type(m) ==
    /\ IF m \in {0, 1, 2}
       THEN /\ mod_type' = m
            /\ last' = Call("set_modulation_type", IntArg(m), FALSE)
       ELSE /\ last' = Call("set_modulation_type", IntArg(m), TRUE)
            /\ UNCHANGED mod_type
    /\ UNCHANGED <<frequency, frequency_range, time_period, amplitude,
                   attenuation, offset, type>>

----------------------------------------------------------------------------
(* The constructor: SignalGenerator(typ, freq, ampl).  Only the arguments  *)
(* with which the constructor returns are drawn: a valid type, a number    *)
(* for the frequency and a number above 0 for the amplitude.  The call     *)
(* record keeps the freq argument.                                         *)

\* the local variable voltage of run(): not yet assigned, or holding v
Unbound == [bound |-> FALSE, v |-> 0]
Bound(v) == [bound |-> TRUE, v |-> v]

\* no call of a setter is in progress
Idle == [line |-> 0, op |-> "none"]

\* the state after SignalGenerator(typ, freq, ampl) has returned: the fields,
\* the three buses of the generator, and the thread started
Construct(typ, freq, ampl) ==
    LET a == AmplitudeExact(ampl, Volts(1), Unset)
    IN  /\ offset = 0
        /\ mod_type = 0
        /\ type = typ
        /\ frequency = StoredFrequency(freq, Hz(1000))
        /\ frequency_range = SelectRange(Float(freq), Unset)
        /\ time_period = TimePeriodOf(frequency)
        /\ amplitude = a.amplitude
        /\ attenuation = a.attenuation
        /\ last = Call("__init__", freq, FALSE)
        /\ exit = FALSE
        /\ pc = "start"
        /\ cur_time_offset = 0
        /\ old_time_offset = 0
        /\ m_t = 0
        /\ voltage = Unbound
        /\ mod_ip = <<0, 0>>
        /\ outputs = <<0, 0>>
        /\ links = {}
        /\ clock = 0
        /\ since = 0
        /\ published = 0
        /\ frame = Idle

Init ==
    \E typ \in {t \in TypeInputs : t \in 0..5},
       freq \in {f \in FrequencyInputs : IsNumber(f)},
       ampl \in {a \in AmplitudeInputs : IsNumber(a) /\ ~Log10DomainError(a)} :
        Construct(typ, freq, ampl)

\* The calls of the setters of the parameters, the thread not running in
\* between: run() writes none of the fields these setters read or write.
Next ==
    \/ \E a \in AmplitudeInputs :
          set_amplitude_exact(a) /\ UNCHANGED <<threadVars, busVars, frame>>
    \/ \E a \in AttenuationInputs :
          set_attenuation(a) /\ UNCHANGED <<threadVars, busVars, frame>>
    \/ \E p \in AmplitudePercentInputs :
          set_amplitude(p) /\ UNCHANGED <<threadVars, busVars, frame>>
    \/ \E r \in RangeInputs :
          set_frequency_range(r) /\ UNCHANGED <<threadVars, busVars, frame>>
    \/ \E p \in FrequencyPercentInputs :
          set_frequency(p) /\ UNCHANGED <<threadVars, busVars, frame>>
    \/ \E f \in FrequencyInputs :
          set_frequency_exact(f) /\ UNCHANGED <<threadVars, busVars, frame>>
    \/ \E t \in TypeInputs :
          set_type(t) /\ UNCHANGED <<threadVars, busVars, frame>>
    \/ \E o \in OffsetInputs :
          set_offset(o) /\ UNCHANGED <<threadVars, busVars, frame>>
    \/ \E m \in ModTypeInputs :
          set_modulation_type(m) /\ UNCHANGED <<threadVars, busVars, frame>>

Spec == Init /\ [][Next]_vars

----------------------------------------------------------------------------
(* The bus handles and the links.  Bus and AutoUpdater are defined outside *)
(* sig_gen.py: a handle exposes its terminal count (width) and its analog  *)
(* flag; a link goes from a source bus to a sink bus; remove_link removes  *)
(* the links of a bus, add_link adds one.                                  *)

\* a Bus of the given width; id names the object
BusArg(id, width, analog) ==
    [ty |-> "Bus", v |-> [id |-> id, width |-> width, analog |-> analog]]

\* the three buses created by the constructor
OwnEnable == BusArg("enable", 1, FALSE)
OwnOutputs == BusArg("outputs", 2, TRUE)
OwnModIp == BusArg("mod_ip", 2, TRUE)

\* isinstance(x, Bus)
IsBus(x) == x.ty = "Bus"

\* AutoUpdater.remove_link(bus): the links of bus are removed
RemoveLink(ls, bus) == { l \in ls : l[1] # bus.v.id /\ l[2] # bus.v.id }

\* AutoUpdater.add_link(source, sink)
AddLink(ls, source, sink) == ls \cup { <<source.v.id, sink.v.id>> }

\* The attributes read through self._enable: the constructor assigns
\* self.enable, and nothing assigns self._enable.
HasAttrEnable == FALSE

\* an argument that is not a Bus (a string); v only fills the field
NotABus == [ty |-> "str", v |-> [id |-> "str", width |-> 0, analog |-> FALSE]]

HandleInputs ==
    { BusArg("bus1", 1, FALSE), BusArg("dig2", 2, FALSE),
      BusArg("ana2", 2, TRUE), BusArg("ana3", 3, TRUE), NotABus }

set_enable(enable) ==
    /\ IF IsBus(enable) /\ HasAttrEnable
       THEN /\ links' = AddLink(RemoveLink(links, OwnEnable), enable, OwnEnable)
            /\ last' = Call("set_enable", enable, FALSE)
       ELSE \* AttributeError on self._enable, or the Exception of a non-Bus
            /\ last' = Call("set_enable", enable, TRUE)
            /\ UNCHANGED links
    /\ UNCHANGED <<config, threadVars, mod_ip, outputs, frame>>

\* the checks of set_outputs
OutputsAccepted(o) == IsBus(o) /\ ~(o.v.width # OwnOutputs.v.width)

set_outputs(o) ==
    /\ IF OutputsAccepted(o)
       THEN /\ links' = AddLink(RemoveLink(links, OwnOutputs), OwnOutputs, o)
            /\ last' = Call("set_outputs", o, FALSE)
       ELSE /\ last' = Call("set_outputs", o, TRUE)
            /\ UNCHANGED links
    /\ UNCHANGED <<config, threadVars, mod_ip, outputs, frame>>

\* the checks of set_modulation_input
ModulationInputAccepted(m) ==
    /\ ~((~IsBus(m)) \/ (~m.v.analog))
    /\ ~(m.v.width # OwnModIp.v.width)

set_modulation_input(mod_input) ==
    /\ IF ModulationInputAccepted(mod_input)
       THEN /\ links' = AddLink(RemoveLink(links, OwnModIp), mod_input, OwnModIp)
            /\ last' = Call("set_modulation_input", mod_input, FALSE)
       ELSE /\ last' = Call("set_modulation_input", mod_input, TRUE)
            /\ UNCHANGED links
    /\ UNCHANGED <<config, threadVars, mod_ip, outputs, frame>>

----------------------------------------------------------------------------
(* The properties (getters).  The call record of a read holds the name of  *)
(* the property and the value returned.                                    *)

PropertyArg(name, value) == [ty |-> name, v |-> value]

Properties ==
    { "frequency", "time_period", "attenuation", "amplitude", "offset",
      "type", "frequency_range", "enabled", "disabled" }

\* the attribute a property reads does not exist: AttributeError
PropertyRaises(name) ==
    \/ name \in {"enabled", "disabled"} /\ ~HasAttrEnable
    \/ name = "frequency_range" /\ frequency_range = Unset

\* the value a property returns
PropertyValue(name) ==
    CASE name = "frequency" -> frequency
      [] name = "time_period" -> time_period
      [] name = "attenuation" -> attenuation
      [] name = "amplitude" -> amplitude
      [] name = "offset" -> offset
      [] name = "type" -> type
      [] name = "frequency_range" -> frequency_range
      [] OTHER -> 0

get(name) ==
    /\ IF PropertyRaises(name)
       THEN last' = Call("get", PropertyArg(name, 0), TRUE)
       ELSE last' = Call("get", PropertyArg(name, PropertyValue(name)), FALSE)
    /\ UNCHANGED <<config, threadVars, busVars, frame>>

NextHandles ==
    \/ \E h \in HandleInputs : set_enable(h)
    \/ \E h \in HandleInputs : set_outputs(h)
    \/ \E h \in HandleInputs : set_modulation_input(h)
    \/ \E n \in Properties : get(n)

\* The constructor, then the binding calls and the reads of the properties.
SpecHandles == Init /\ [][NextHandles]_vars

----------------------------------------------------------------------------
(* The thread: run() and kill().                                           *)
(*                                                                         *)
(* Time is counted in ticks of 10 microseconds: the period of 100 Hz is    *)
(* 1000 ticks and its sampling interval 2 ticks.  run() only uses the time *)
(* modulo the period, so the clock is kept modulo the period; the          *)
(* specifications of the thread keep the frequency at 100 Hz.  The values  *)
(* on the buses and the local variable voltage are in thousandths (of a    *)
(* volt, or of the unit amplitude).                                        *)

\* Largest count kept of the samples published.
MaxPublished == 3

Abs(x) == IF x < 0 THEN -x ELSE x
Min(a, b) == IF a < b THEN a ELSE b

\* a frequency in thousandths of a Hz
MilliHz(f) == (f.h * 100000 + f.l) * 100

\* self._time_period in ticks
PeriodTicks(tp) == 100000000 \div MilliHz(tp.of)

\* the property SAMPLING_TIME_INTERVAL, in ticks
SAMPLING_TIME_INTERVAL == PeriodTicks(time_period) \div 500

\* the time taken by time.sleep(SAMPLING_TIME_INTERVAL) when the thread is
\* resumed o ticks late, with the call of sleep forgotten
SleepElapsed_NoSleep(o) == o

\* the time taken by time.sleep(SAMPLING_TIME_INTERVAL) when the thread is
\* resumed o ticks late
SleepElapsed(o) == SAMPLING_TIME_INTERVAL + o

\* d ticks pass
Elapse(d) ==
    /\ clock' = (clock + d) % PeriodTicks(time_period)
    /\ since' = Min(since + d, SAMPLING_TIME_INTERVAL)

\* the condition of the loop with the test of _exit forgotten
LoopContinues_Always == TRUE

\* the condition of the loop: not self._exit
LoopContinues == ~exit

\* the condition under which an iteration samples and publishes
SampleDue(cur, old) == Abs(cur - old) >= SAMPLING_TIME_INTERVAL

\* freq of an iteration, in thousandths of a Hz, mt being m_t
FreqOf(mt) ==
    IF mod_type = 2 THEN MilliHz(frequency) + mt ELSE MilliHz(frequency)

\* 1 / f for f in thousandths of a Hz, in ticks, as a fraction num / den
Reciprocal(f) == [inf |-> FALSE, num |-> 100000000, den |-> f]
Infinite == [inf |-> TRUE, num |-> 1, den |-> 0]

\* time_p of an iteration, mt being m_t
TimePOf(mt) ==
    IF mod_type = 2
    THEN IF FreqOf(mt) # 0 THEN Reciprocal(FreqOf(mt)) ELSE Infinite
    ELSE IF time_period.inf THEN Infinite
         ELSE Reciprocal(MilliHz(time_period.of))

\* cur_time_offset / time_p, in thousandths
Ratio(cur, tp) ==
    IF tp.inf THEN 0 ELSE (cur * tp.den) \div (tp.num \div 1000)

\* cur_time_offset < time_p / float(2)
BeforeHalf(cur, tp) ==
    IF tp.inf THEN TRUE
    ELSE IF tp.den > 0 THEN 2 * cur * tp.den < tp.num
    ELSE 2 * cur * tp.den > tp.num

\* math.sin(2 * math.pi * x) for x in thousandths of a turn, in thousandths
\* (Bhaskara's rational approximation, within 0.002 of the sine)
Sin(x) ==
    LET p == x % 1000
        q == IF p <= 500 THEN p ELSE p - 500
        b == (16000 * (q * (500 - q))) \div (1250000 - 4 * (q * (500 - q)))
    IN  IF p <= 500 THEN b ELSE -b

\* AmplitudeModulated with the carrier term forgotten: m_t * c_t
AmplitudeModulated_NoCarrier(mt, ct) == (mt * ct) \div 1000

\* (1 + m_t) * c_t
AmplitudeModulated(mt, ct) == ((1000 + mt) * ct) \div 1000

\* the local variable voltage after the waveform branches of an iteration,
\* prev being its value before them
Waveform(typ, cur, freq, tp, prev) ==
    LET fold == 2 * (Ratio(cur, tp) - (Ratio(cur, tp) + 500))
    IN  CASE typ = 0 -> Bound(Sin((freq * cur) \div 100000) + 500)
          [] typ = 1 -> Bound(IF BeforeHalf(cur, tp) THEN 1000 ELSE 0)
          [] typ = 2 -> Bound(Ratio(cur, tp))
          [] typ = 3 -> Bound(Abs(fold))
          [] typ = 4 -> Bound(fold + 1000)
          [] OTHER -> prev

\* the voltage written on the signal terminal
Published(v) == (v * amplitude) \div 1000 + offset

\* the two assignments before the loop
run_start(d) ==
    /\ pc = "start"
    /\ Elapse(d)
    /\ cur_time_offset' = clock' % PeriodTicks(time_period)
    /\ old_time_offset' = cur_time_offset' - PeriodTicks(time_period)
    /\ pc' = "while"
    /\ UNCHANGED <<config, last, exit, m_t, voltage, published, busVars,
                   frame>>

\* the test of the while loop
run_while ==
    /\ pc = "while"
    /\ pc' = IF LoopContinues THEN "tick" ELSE "done"
    /\ UNCHANGED <<config, last, exit, cur_time_offset, old_time_offset, m_t,
                   voltage, clock, since, published, busVars, frame>>

\* the time reading of an iteration, d ticks after the last one, and the
\* test of the sampling interval
run_tick(d) ==
    /\ pc = "tick"
    /\ Elapse(d)
    /\ cur_time_offset' = clock' % PeriodTicks(time_period)
    /\ pc' = IF SampleDue(cur_time_offset', old_time_offset)
             THEN "sample" ELSE "while"
    /\ UNCHANGED <<config, last, exit, old_time_offset, m_t, voltage,
                   published, busVars, frame>>

\* the modulating input, the waveform and the modulation
run_sample ==
    /\ pc = "sample"
    /\ m_t' = mod_ip[1] - mod_ip[2]
    /\ LET w == Waveform(type, cur_time_offset, FreqOf(m_t'), TimePOf(m_t'),
                         voltage)
       IN  IF ~w.bound
           THEN \* UnboundLocalError: the thread dies
                /\ pc' = "crashed"
                /\ UNCHANGED voltage
           ELSE /\ voltage' = IF mod_type = 1
                               THEN Bound(AmplitudeModulated(m_t', w.v))
                               ELSE w
                /\ pc' = "publish"
    /\ UNCHANGED <<config, last, exit, cur_time_offset, old_time_offset,
                   clock, since, published, busVars, frame>>

\* outputs.set_voltage_all and the assignment of old_time_offset
run_publish ==
    /\ pc = "publish"
    /\ outputs' = <<Published(voltage.v), 0>>
    /\ old_time_offset' = cur_time_offset
    /\ since' = 0
    /\ published' = Min(published + 1, MaxPublished)
    /\ pc' = "sleep"
    /\ UNCHANGED <<config, last, exit, cur_time_offset, m_t, voltage, clock,
                   mod_ip, links, frame>>

\* time.sleep(self.SAMPLING_TIME_INTERVAL), the thread resumed o ticks late
run_sleep(o) ==
    /\ pc = "sleep"
    /\ Elapse(SleepElapsed(o))
    /\ pc' = "while"
    /\ UNCHANGED <<config, last, exit, cur_time_offset, old_time_offset, m_t,
                   voltage, published, busVars, frame>>

\* a call without argument
NoArg == [ty |-> "none", v |-> 0]

kill ==
    /\ exit' = TRUE
    /\ last' = Call("kill", NoArg, FALSE)
    /\ UNCHANGED <<config, pc, cur_time_offset, old_time_offset, m_t, voltage,
                   clock, since, published, busVars, frame>>

\* the source linked to mod_ip drives its two terminals
drive_mod_ip(v0, v1) ==
    /\ mod_ip' = <<v0, v1>>
    /\ UNCHANGED <<config, last, threadVars, outputs, links, frame>>

\* delays of the thread, in ticks: between two time readings, and on the
\* return from sleep (about one period among them)
TickDelays == {0, 1}
Oversleeps == {0, 1, 997, 998}

\* a step of the thread
RunStep ==
    \/ run_start(0)
    \/ run_while
    \/ \E d \in TickDelays : run_tick(d)
    \/ run_sample
    \/ run_publish
    \/ \E o \in Oversleeps : run_sleep(o)

\* SignalGenerator(SQUARE, 100, 5): a period of 0.01 s
InitRun == Construct(1, IntArg(Hz(100)), IntArg(Volts(5)))

NextRun ==
    \/ run_start(0)
    \/ run_while
    \/ \E d \in TickDelays : run_tick(d)
    \/ run_sample
    \/ run_publish
    \/ \E o \in Oversleeps : run_sleep(o)
    \/ kill

\* The thread of a generator whose parameters are left alone, and kill().
SpecRun == InitRun /\ [][NextRun]_vars

\* The same, the thread being scheduled again and again.
SpecRunFair == SpecRun /\ WF_vars(RunStep)

\* The thread at a few phases of the period, the parameters of the waveform
\* being changed while it runs; at most MaxPublished samples.
InitWave == \E typ \in {1, 2, 5} : Construct(typ, IntArg(Hz(100)), IntArg(Volts(5)))

NextWave ==
    \/ \E d \in {0, 700} : run_start(d)
    \/ run_while /\ published < MaxPublished
    \/ run_tick(0)
    \/ run_sample
    \/ run_publish
    \/ \E o \in {98, 298} : run_sleep(o)
    \/ \E t \in {1, 5} : set_type(t) /\ UNCHANGED <<threadVars, busVars, frame>>
    \/ \E m \in {1, 2} :
          set_modulation_type(m) /\ UNCHANGED <<threadVars, busVars, frame>>
    \/ set_offset(FloatArg(-2500)) /\ UNCHANGED <<threadVars, busVars, frame>>
    \/ \E v \in {0, 500} : drive_mod_ip(v, 0)

SpecWave == InitWave /\ [][NextWave]_vars

----------------------------------------------------------------------------
(* set_amplitude_exact and set_frequency_exact statement by statement,     *)
(* called from another thread than run(): the interpreter may switch       *)
(* threads between any two statements.  frame.line is the line of          *)
(* sig_gen.py the call executes next.                                      *)

\* the fields as they are when a setter is called
Snapshot ==
    [frequency |-> frequency, time_period |-> time_period,
     amplitude |-> amplitude, attenuation |-> attenuation, offset |-> offset]

\* the frame of a call of op(arg) about to execute line
Frame(op, arg, line) ==
    [line |-> line, op |-> op, arg |-> arg, before |-> Snapshot]

\* the call goes on to line
Goto(line) == frame' = [frame EXCEPT !.line = line]

\* the call is at line of op
At(op, line) == frame.op = op /\ frame.line = line

\* the call returns, or raises
Return(raised) ==
    /\ frame' = Idle
    /\ last' = Call(frame.op, frame.arg, raised)

\* the line of set_amplitude_exact executed after the tests of lines 253
\* and 257, from line on
AmplitudeLineFrom(line, ampl) ==
    IF line <= 253 /\ Float(ampl) <= AMPL_MIN THEN 254
    ELSE IF line <= 257 /\ Float(ampl) >= AMPL_MAX THEN 258
    ELSE 261

\* the call, up to the first assignment
set_amplitude_exact_call(ampl) ==
    /\ frame = Idle
    /\ IF ~IsNumber(ampl)
       THEN /\ last' = Call("set_amplitude_exact", ampl, TRUE)
            /\ UNCHANGED frame
       ELSE /\ frame' = Frame("set_amplitude_exact", ampl,
                              AmplitudeLineFrom(253, ampl))
            /\ UNCHANGED last
    /\ UNCHANGED <<config, threadVars, busVars>>

\* self._amplitude = 0
set_amplitude_exact_254 ==
    /\ At("set_amplitude_exact", 254)
    /\ amplitude' = 0
    /\ Goto(255)
    /\ UNCHANGED <<frequency, frequency_range, time_period, attenuation,
                   offset, type, mod_type, last, threadVars, busVars>>

\* self._attenuation = 0, and the test of line 257
set_amplitude_exact_255 ==
    /\ At("set_amplitude_exact", 255)
    /\ attenuation' = 0
    /\ Goto(AmplitudeLineFrom(257, frame.arg))
    /\ UNCHANGED <<frequency, frequency_range, time_period, amplitude,
                   offset, type, mod_type, last, threadVars, busVars>>

\* self._amplitude = 10
set_amplitude_exact_258 ==
    /\ At("set_amplitude_exact", 258)
    /\ amplitude' = Volts(10)
    /\ Goto(259)
    /\ UNCHANGED <<frequency, frequency_range, time_period, attenuation,
                   offset, type, mod_type, last, threadVars, busVars>>

\* self._attenuation = 0
set_amplitude_exact_259 ==
    /\ At("set_amplitude_exact", 259)
    /\ attenuation' = 0
    /\ Goto(261)
    /\ UNCHANGED <<frequency, frequency_range, time_period, amplitude,
                   offset, type, mod_type, last, threadVars, busVars>>

\* self._attenuation = 20 * (math.log10(float(ampl) / 10)), which raises
\* ValueError when ampl <= 0
set_amplitude_exact_261 ==
    /\ At("set_amplitude_exact", 261)
    /\ IF Log10DomainError(frame.arg)
       THEN /\ Return(TRUE)
            /\ UNCHANGED attenuation
       ELSE /\ attenuation' = AttenuationOf(frame.arg)
            /\ Goto(262)
            /\ UNCHANGED last
    /\ UNCHANGED <<frequency, frequency_range, time_period, amplitude,
                   offset, type, mod_type, threadVars, busVars>>

\* self._amplitude = float(ampl), and the return
set_amplitude_exact_262 ==
    /\ At("set_amplitude_exact", 262)
    /\ amplitude' = Float(frame.arg)
    /\ Return(FALSE)
    /\ UNCHANGED <<frequency, frequency_range, time_period, attenuation,
                   offset, type, mod_type, threadVars, busVars>>

\* the line of set_frequency_exact executed after the tests of lines 362
\* and 365, from line on
FrequencyLineFrom(line, f) ==
    IF line <= 362 /\ Lt(Float(f), FREQ_MIN) THEN 363
    ELSE IF line <= 365 /\ Gt(Float(f), FREQ_MAX) THEN 366
    ELSE 368

\* the call, up to the first assignment
set_frequency_exact_call(f) ==
    /\ frame = Idle
    /\ IF ~IsNumber(f)
       THEN /\ last' = Call("set_frequency_exact", f, TRUE)
            /\ UNCHANGED frame
       ELSE /\ frame' = Frame("set_frequency_exact", f,
                              FrequencyLineFrom(362, f))
            /\ UNCHANGED last
    /\ UNCHANGED <<config, threadVars, busVars>>

\* self._frequency = self.FREQ_MIN, and the test of line 365
set_frequency_exact_363 ==
    /\ At("set_frequency_exact", 363)
    /\ frequency' = FREQ_MIN
    /\ Goto(FrequencyLineFrom(365, frame.arg))
    /\ UNCHANGED <<frequency_range, time_period, amplitude, attenuation,
                   offset, type, mod_type, last, threadVars, busVars>>

\* self._frequency = self.FREQ_MAX
set_frequency_exact_366 ==
    /\ At("set_frequency_exact", 366)
    /\ frequency' = FREQ_MAX
    /\ Goto(368)
    /\ UNCHANGED <<frequency_range, time_period, amplitude, attenuation,
                   offset, type, mod_type, last, threadVars, busVars>>

\* self._frequency = float(frequency)
set_frequency_exact_368 ==
    /\ At("set_frequency_exact", 368)
    /\ frequency' = Float(frame.arg)
    /\ Goto(371)
    /\ UNCHANGED <<frequency_range, time_period, amplitude, attenuation,
                   offset, type, mod_type, last, threadVars, busVars>>

\* the band selection loop
set_frequency_exact_371 ==
    /\ At("set_frequency_exact", 371)
    /\ frequency_range' = SelectRange(Float(frame.arg), frequency_range)
    /\ Goto(376)
    /\ UNCHANGED <<frequency, time_period, amplitude, attenuation,
                   offset, type, mod_type, last, threadVars, busVars>>

\* the assignment of self._time_period, and the return
set_frequency_exact_376 ==
    /\ At("set_frequency_exact", 376)
    /\ time_period' = TimePeriodOf(frequency)
    /\ Return(FALSE)
    /\ UNCHANGED <<frequency, frequency_range, amplitude, attenuation,
                   offset, type, mod_type, threadVars, busVars>>

\* The thread model counts the period in ticks and the frequency in
\* thousandths of a Hz: it follows run() for the periods of at least 500
\* ticks (frequencies up to 200 Hz).
Resolvable ==
    /\ ~time_period.inf
    /\ time_period.of.h = 0
    /\ time_period.of.l > 0
    /\ PeriodTicks(time_period) >= 500

\* arguments in range, and out of range on either side
ExactAmplitudes == {IntArg(Volts(2)), IntArg(Volts(0)), IntArg(Volts(20))}
ExactFrequencies == {IntArg(Hz(50)), IntArg(Zero), IntArg(Hz(1000000001))}

\* SignalGenerator(SQUARE, 100, 5)
InitCalls == Construct(1, IntArg(Hz(100)), IntArg(Volts(5)))

NextCalls ==
    \/ Resolvable /\ run_start(0)
    \/ published < MaxPublished /\ run_while
    \/ Resolvable /\ run_tick(0)
    \/ Resolvable /\ run_sample
    \/ run_publish
    \/ \E o \in {98, 298} : Resolvable /\ run_sleep(o)
    \/ \E a \in ExactAmplitudes : set_amplitude_exact_call(a)
    \/ set_amplitude_exact_254
    \/ set_amplitude_exact_255
    \/ set_amplitude_exact_258
    \/ set_amplitude_exact_259
    \/ set_amplitude_exact_261
    \/ set_amplitude_exact_262
    \/ \E f \in ExactFrequencies : set_frequency_exact_call(f)
    \/ set_frequency_exact_363
    \/ set_frequency_exact_366
    \/ set_frequency_exact_368
    \/ set_frequency_exact_371
    \/ set_frequency_exact_376

\* The thread, and one call at a time of set_amplitude_exact or
\* set_frequency_exact from another thread; at most MaxPublished samples.
SpecCalls == InitCalls /\ [][NextCalls]_vars

\* voltages driven on the two terminals of mod_ip, in thousandths of a
\* volt: m_t of 0, of 25 and of -100
ModulatingInputs == {<<0, 0>>, <<25000, 0>>, <<0, 100000>>}

InitFM ==
    \E typ \in {1, 2} : Construct(typ, IntArg(Hz(100)), IntArg(Volts(5)))

NextFM ==
    \/ \E d \in {0, 700} : run_start(d)
    \/ published < MaxPublished /\ run_while
    \/ run_tick(0)
    \/ run_sample
    \/ run_publish
    \/ \E o \in {98, 298} : run_sleep(o)
    \/ \E m \in {0, 2} :
          set_modulation_type(m) /\ UNCHANGED <<threadVars, busVars, frame>>
    \/ \E v \in ModulatingInputs : drive_mod_ip(v[1], v[2])

\* The thread at a few phases of the period of 100 Hz, the modulation being
\* switched between none and FM and the modulating input driven while it
\* runs; at most MaxPublished samples.
SpecFM == InitFM /\ [][NextFM]_vars

----------------------------------------------------------------------------
(* Properties.                                                             *)

\* x clamped to [FREQ_MIN, FREQ_MAX]
ClampFrequency(x) ==
    IF Lt(x, FREQ_MIN) THEN FREQ_MIN ELSE IF Gt(x, FREQ_MAX) THEN FREQ_MAX ELSE x

\* v clamped to [AMPL_MIN, AMPL_MAX]
ClampAmplitude(v) ==
    IF v < AMPL_MIN THEN AMPL_MIN ELSE IF v > AMPL_MAX THEN AMPL_MAX ELSE v

\* the eight fixed bands
Bands == { FREQ_RANGE[i] : i \in 0..7 }

\* C1: after set_frequency_exact(hz) returns, for a number hz, the stored
\* frequency is hz clamped to [FREQ_MIN, FREQ_MAX].
C1_FrequencyClamped ==
    (last.op = "set_frequency_exact" /\ ~last.raised)
        => frequency = ClampFrequency(last.arg.v)

\* C2: after set_frequency_exact(f) with FREQ_MIN <= f <= FREQ_MAX (the call
\* made by the constructor included), frequency_range is defined and is one
\* of the eight bands of FREQ_RANGE, with low <= f <= high.
C2_RangeContainsFrequency ==
    ( /\ last.op \in {"__init__", "set_frequency_exact"}
      /\ ~last.raised
      /\ Le(FREQ_MIN, last.arg.v) /\ Le(last.arg.v, FREQ_MAX) )
        => /\ frequency_range \in Bands
           /\ Le(frequency_range[1], last.arg.v)
           /\ Le(last.arg.v, frequency_range[2])

\* C3: set_amplitude_exact(v), for a number v, does not raise and leaves
\* amplitude = min(max(v, AMPL_MIN), AMPL_MAX).
C3_AmplitudeExactSaturates ==
    (last.op = "set_amplitude_exact" /\ last.arg.ty \in {"int", "float"})
        => /\ ~last.raised
           /\ amplitude = ClampAmplitude(last.arg.v)

\* C4: in every state reached by the constructor and the setters that
\* returned, AMPL_MIN <= amplitude <= AMPL_MAX.
C4_AmplitudeInBounds ==
    ~last.raised => (AMPL_MIN <= amplitude /\ amplitude <= AMPL_MAX)

C6_FrequencyWithinRange ==
    [][ (last'.op = "set_frequency" /\ frequency_range # Unset
            /\ last'.arg.ty \in {"int", "float"})
          => IF 0 <= last'.arg.v /\ last'.arg.v <= 100
             THEN /\ ~last'.raised
                  /\ Le(frequency_range'[1], frequency')
                  /\ Le(frequency', frequency_range'[2])
                  /\ Le(FREQ_MIN, frequency') /\ Le(frequency', FREQ_MAX)
             ELSE /\ last'.raised
                  /\ frequency' = frequency ]_vars

\* C7: set_frequency_range of a list or a tuple (low, high) with low <= high
\* does not raise and stores (max(low, FREQ_MIN), min(high, FREQ_MAX)).
C7_RangeSaturatesSilently ==
    ( /\ last.op = "set_frequency_range"
      /\ last.arg.ty \in {"list", "tuple"}
      /\ Len(last.arg.v) = 2
      /\ Le(last.arg.v[1], last.arg.v[2]) )
        => /\ ~last.raised
           /\ frequency_range =
                << IF Lt(last.arg.v[1], FREQ_MIN) THEN FREQ_MIN
                                                 ELSE last.arg.v[1],
                   IF Gt(last.arg.v[2], FREQ_MAX) THEN FREQ_MAX
                                                 ELSE last.arg.v[2] >>

\* C8: the stored frequency_range (low, high) satisfies
\* FREQ_MIN <= low <= high <= FREQ_MAX.
C8_RangeWithinLimits ==
    frequency_range # Unset
        => /\ Le(FREQ_MIN, frequency_range[1])
           /\ Le(frequency_range[1], frequency_range[2])
           /\ Le(frequency_range[2], FREQ_MAX)

C10_SetAttenuationFrame ==
    [][ (last'.op = "set_attenuation" /\ last'.arg.ty \in {"int", "float"})
          => IF last'.arg.v >= 0
             THEN /\ ~last'.raised
                  /\ attenuation' = last'.arg.v
                  /\ UNCHANGED <<frequency, frequency_range, time_period,
                                 amplitude, offset, type, mod_type>>
             ELSE /\ last'.raised
                  /\ attenuation' = attenuation ]_vars

\* C10, its case: set_attenuation(20) has returned on a generator of
\* amplitude 5 V: attenuation is 20 dB, the amplitude is still 5 V.
C10_Witness ==
    /\ last = Call("set_attenuation", IntArg(dB(20)), FALSE)
    /\ attenuation = dB(20)
    /\ amplitude = Volts(5)

\* C11: after the constructor and any sequence of set_frequency_exact and
\* set_frequency calls, time_period is 1 / frequency when the frequency is
\* not 0, and is infinite when the frequency is 0.
C11_TimePeriodOfFrequency ==
    IF frequency = Zero
    THEN time_period.inf
    ELSE ~time_period.inf /\ time_period.of = frequency

\* C11, its case: set_frequency(2) on the range (2 GHz, 1 GHz) has stored
\* the frequency 0 and an infinite time period.
C11_Witness ==
    /\ last = Call("set_frequency", IntArg(2), FALSE)
    /\ frequency = Zero
    /\ time_period.inf

\* the setters that take one number
NumericSetters ==
    { "set_amplitude_exact", "set_attenuation", "set_amplitude",
      "set_frequency", "set_frequency_exact", "set_offset" }

\* C12: a numeric setter called with an argument that is not an int or a
\* float, and set_frequency_range called with an argument that is not a list
\* or a tuple of length 2, raises and leaves every configuration field
\* unchanged.
C12_TypeErrorsLeaveConfig ==
    [][ ( \/ /\ last'.op \in NumericSetters
             /\ last'.arg.ty \notin {"int", "float"}
          \/ /\ last'.op = "set_frequency_range"
             /\ (last'.arg.ty \notin {"list", "tuple"} \/ Len(last'.arg.v) # 2) )
          => (last'.raised /\ config' = config) ]_vars

\* C12, its case: set_frequency_range of a list of three frequencies has
\* raised.
C12_Witness ==
    last = Call("set_frequency_range",
                ListArg(<<Hz(10), Hz(100), Hz(1000)>>), TRUE)

\* the handle h has the shape a binding call requires
Conforming(op, h) ==
    /\ h.ty = "Bus"
    /\ CASE op = "set_enable" -> h.v.width = 1
         [] op = "set_outputs" -> h.v.width = 2 /\ h.v.analog
         [] op = "set_modulation_input" -> h.v.width = 2 /\ h.v.analog

\* the links after the binding of op has been replaced by one to h
Rebound(op, h) ==
    CASE op = "set_enable" ->
           { l \in links : "enable" \notin {l[1], l[2]} }
               \cup { <<h.v.id, "enable">> }
      [] op = "set_outputs" ->
           { l \in links : "outputs" \notin {l[1], l[2]} }
               \cup { <<"outputs", h.v.id>> }
      [] op = "set_modulation_input" ->
           { l \in links : "mod_ip" \notin {l[1], l[2]} }
               \cup { <<h.v.id, "mod_ip">> }

\* C13: set_enable accepts exactly the 1-terminal buses, set_outputs and
\* set_modulation_input exactly the 2-terminal analog buses; a call with a
\* conforming handle returns and replaces the previous binding; a call with
\* another handle raises and no link is removed or added.
C13_BindingValidatesShape ==
    [][ last'.op \in {"set_enable", "set_outputs", "set_modulation_input"}
          => IF Conforming(last'.op, last'.arg)
             THEN ~last'.raised /\ links' = Rebound(last'.op, last'.arg)
             ELSE last'.raised /\ links' = links ]_vars

\* C19: every read of a property returns the current value of its field,
\* does not raise, and leaves every field of the generator unchanged.
C19_GettersReturnFields ==
    [][ last'.op = "get"
          => /\ ~last'.raised
             /\ last'.arg.ty \notin {"enabled", "disabled"}
                  => last'.arg.v = PropertyValue(last'.arg.ty)
             /\ UNCHANGED <<config, threadVars, busVars>> ]_vars

\* C14: the period being fixed, no two iterations whose time readings are
\* less than period / 500 apart both publish a sample, also when the time
\* modulo the period wraps around between them.
C14_PublishesAtLeastIntervalApart ==
    (pc = "publish" /\ published > 0) => since >= SAMPLING_TIME_INTERVAL

\* C14, its case: an iteration publishes a second sample after the time
\* modulo the period has wrapped around since the last sample.
C14_Witness ==
    /\ pc = "publish"
    /\ published > 0
    /\ cur_time_offset < old_time_offset
    /\ since >= SAMPLING_TIME_INTERVAL

\* C15: once kill() has been called, the test at the top of the next
\* iteration ends the loop, so that no iteration starts (and publishes)
\* after it; the thread eventually terminates; a second kill() changes
\* nothing; nothing brings the thread from terminated back to running.
C15_KillTerminates ==
    /\ [][(exit /\ pc = "while") => pc' \in {"while", "done"}]_vars
    /\ [][pc = "done" => pc' = "done"]_vars
    /\ [][exit => exit']_vars
    /\ [][(exit /\ pc' = pc) => UNCHANGED vars]_vars
    /\ (exit ~> pc = "done")

\* C15, its case: the thread has terminated after kill(), having published.
C15_Witness ==
    /\ exit
    /\ pc = "done"
    /\ published > 0
    /\ last.op = "kill"

\* the voltage an iteration computes for the waveform type typ
SampleOf(typ) ==
    LET mt == mod_ip[1] - mod_ip[2]
        w == Waveform(typ, cur_time_offset, FreqOf(mt), TimePOf(mt), voltage)
    IN  IF mod_type = 1 THEN Bound(((1000 + mt) * w.v) \div 1000) ELSE w

\* C16: an iteration with the waveform type TTL (5) computes the voltage
\* that the same iteration computes with the type Square: from the raw
\* voltage 1 before half of the period and 0 after it.
C16_TtlSameAsSquare ==
    [][ (pc = "sample" /\ pc' # "sample" /\ type = 5)
          => (pc' = "publish" /\ voltage' = SampleOf(1)) ]_vars

\* C17: the value published on the signal terminal is modulated * amplitude
\* + offset, where modulated is the raw waveform voltage c_t of the same
\* iteration when there is no modulation and (1 + m_t) * c_t under AM, m_t
\* being the difference of the two terminals of mod_ip read in that
\* iteration; the ground terminal is published as 0.
C17_PublishedValue ==
    [][ /\ (pc = "sample" /\ pc' # "sample" /\ mod_type \in {0, 1})
             => ( /\ pc' = "publish"
                  /\ m_t' = mod_ip[1] - mod_ip[2]
                  /\ voltage' = SampleOf(IF type = 5 THEN 1 ELSE type) )
        /\ (pc = "publish" /\ pc' # "publish")
             => outputs' = << (voltage.v * amplitude) \div 1000 + offset, 0 >>
      ]_vars

\* the iteration is one of AM with the carrier sample 0.8 and the modulating
\* sample 0.5
AmScenario ==
    /\ pc = "sample" /\ pc' = "publish"
    /\ mod_type = 1
    /\ mod_ip[1] - mod_ip[2] = 500
    /\ Waveform(type, cur_time_offset, FreqOf(500), TimePOf(500), voltage)
         = Bound(800)

\* C18, as claimed: with AM, c_t = 0.8 and m_t = 0.5, the composite sample
\* before the scaling is 1.08.
C18_AmScenarioAsClaimed ==
    [][ AmScenario => voltage' = Bound(1080) ]_vars

\* C18, amended: with AM, c_t = 0.8 and m_t = 0.5, the composite sample
\* before the scaling is (1 + 0.5) * 0.8 = 1.2.
C18_AmScenario ==
    [][ AmScenario => voltage' = Bound(1200) ]_vars

\* C18, its case: a ramp sampled at 0.8 of its period under AM with the
\* modulating sample 0.5.
C18_Witness ==
    /\ pc = "publish"
    /\ type = 2
    /\ cur_time_offset = 800
    /\ mod_type = 1
    /\ m_t = 500
    /\ voltage = Bound(1200)

\* C20: every iteration of the loop sleeps before the next test of the
\* sampling interval, whether it published or not: the thread comes back
\* to the top of the loop only from the sleep (or from the start).
C20_SleepsEveryIteration ==
    [][ (pc' = "while" /\ pc # "while") => pc \in {"start", "sleep"} ]_vars

\* the fields after the call in progress has returned (or raised), the call
\* taken as a whole
AfterCall ==
    IF frame.op = "set_amplitude_exact"
    THEN LET r == AmplitudeExact(frame.arg, frame.before.amplitude,
                                 frame.before.attenuation)
         IN  [frame.before EXCEPT !.amplitude = r.amplitude,
                                  !.attenuation = r.attenuation]
    ELSE [frame.before EXCEPT
            !.frequency = Float(frame.arg),
            !.time_period = TimePeriodOf(Float(frame.arg))]

\* C21: an iteration of the thread that runs while a call of
\* set_amplitude_exact or set_frequency_exact is in progress, with an
\* argument in range or out of range, finds in each of the fields frequency,
\* amplitude, attenuation, time_period and offset either the value the field
\* had before the call or the value it has after the call: never an
\* intermediate value.
C21_SettersAtomic ==
    [][ (frame.line # 0 /\ pc \in {"tick", "sample", "publish"} /\ pc' # pc)
          => /\ frequency \in {frame.before.frequency, AfterCall.frequency}
             /\ amplitude \in {frame.before.amplitude, AfterCall.amplitude}
             /\ attenuation
                  \in {frame.before.attenuation, AfterCall.attenuation}
             /\ time_period
                  \in {frame.before.time_period, AfterCall.time_period}
             /\ offset \in {frame.before.offset, AfterCall.offset} ]_vars

\* the time offset cur is a time modulo the period tp: 0 <= cur < tp
WithinPeriod(cur, tp) ==
    tp.inf \/ (0 <= cur * tp.den /\ cur * tp.den < tp.num)

\* C22: in every iteration that samples, FM with a modulating sample other
\* than 0 included, the time offset the waveform is computed from is a time
\* modulo the period in effect for the iteration (1 / (frequency + m_t)
\* under FM), so that the phase fraction, their quotient, lies in [0, 1);
\* the raw voltage of the ramp lies in [0, 1), and that of the square
\* wave is 1 exactly when the phase fraction is below 0.5.
C22_PhaseWithinPeriod ==
    [][ (pc = "sample" /\ pc' = "publish" /\ mod_type \in {0, 2})
          => LET tp == TimePOf(m_t')
                 phase == Ratio(cur_time_offset, tp)
             IN  /\ WithinPeriod(cur_time_offset, tp)
                 /\ 0 <= phase /\ phase < 1000
                 /\ type = 2 => (0 <= voltage'.v /\ voltage'.v < 1000)
                 /\ type = 1 => (voltage'.v = 1000 <=> phase < 500) ]_vars

====
